---- MODULE Spec2Model ----
(***************************************************************************)
(* The Read Shard engine of swh-perfecthash (src/swh/perfecthash/hash.c):  *)
(* one file on disk, a writer handle that creates, fills and saves it, and *)
(* reader handles that load it and look objects up.  The file is a         *)
(* sequence of bytes; every 64-bit integer goes through htonq/ntohq and    *)
(* the host's memory layout on its way to and from the file.               *)
(***************************************************************************)
EXTENDS Integers, Sequences, FiniteSets, TLC

\* ------------------------------------------------------------- bounds
\* largest objects_count a caller passes to shard_create
MaxCount == 2
\* number of distinct keys the callers draw from
NumKeys == 3
\* cmph_size(hash) exceeds the number of keys by at most this
MaxSlack == 1
\* number of passes (rewinds) one cmph_new makes over the key stream
MaxPasses == 2
\* number of short fwrite calls in one behaviour
MaxFaults == 1
\* calls of shard_object_write past the capacity a misusing caller makes
MaxExtra == 2

\* ------------------------------------------------- constants of hash.h
SHARD_VERSION == 1
SHARD_MAGIC == <<83, 72, 65, 82, 68, 0>>
MagicLen == Len(SHARD_MAGIC)
U64Len == 8
HeaderFields ==
    <<"version", "objects_count", "objects_position", "objects_size",
      "index_position", "index_size", "hash_position">>
HeaderLen == U64Len * Len(HeaderFields)
SHARD_OFFSET_MAGIC == MagicLen
SHARD_OFFSET_HEADER == MagicLen + HeaderLen

Handles == {"w", "r1", "r2"}
Hosts == {"LE", "BE"}
Keys == 1..NumKeys
Objects == {<<>>, <<66, 67>>}

\* ------------------------------------------------------ 64-bit integers
\* A uint64_t is a word: its eight bytes, least significant first.  The
\* model's integers stay below 2^31; a word above that reads as U64Big.
U64Big == 127 * 16777216 + 16777215
P256(i) == IF i = 1 THEN 1 ELSE IF i = 2 THEN 256 ELSE IF i = 3 THEN 65536 ELSE 16777216
Word(n) == [i \in 1..U64Len |-> IF i <= 4 THEN (n \div P256(i)) % 256 ELSE 0]
Val(w) ==
    IF (\A i \in 5..U64Len : w[i] = 0) /\ w[4] < 128
    THEN w[1] + 256 * w[2] + 65536 * w[3] + 16777216 * w[4]
    ELSE U64Big

bswap64(w) == [i \in 1..U64Len |-> w[U64Len + 1 - i]]
htonq_identity(hst, w) == w
htonq(hst, w) == IF hst = "LE" THEN bswap64(w) ELSE w
ntohq_identity(hst, w) == w
ntohq(hst, w) == IF hst = "LE" THEN bswap64(w) ELSE w

\* the bytes of a uint64_t object in the host's memory, lowest address first
ToMem(hst, w) == IF hst = "LE" THEN w ELSE bswap64(w)
FromMem(hst, bytes) == IF hst = "LE" THEN bytes ELSE bswap64(bytes)

\* ------------------------------------------------------------ the file
Max(a, b) == IF a >= b THEN a ELSE b
Min(a, b) == IF a <= b THEN a ELSE b

\* fwrite of bytes at position p: bytes past the end grow the file, a gap
\* left by a seek past the end reads as zeros
FWrite(fl, p, bytes) ==
    IF bytes = <<>> THEN fl
    ELSE SubSeq(fl, 1, Min(p, Len(fl)))
         \o [i \in 1..(p - Min(p, Len(fl))) |-> 0]
         \o bytes
         \o SubSeq(fl, p + Len(bytes) + 1, Len(fl))

\* fread of n bytes at position p: the bytes, fewer than n at end of file
FRead(fl, p, n) ==
    IF p >= Len(fl) THEN <<>>
    ELSE SubSeq(fl, p + 1, IF n >= Len(fl) - p THEN Len(fl) ELSE p + n)

\* ------------------------------------------------------------ the state
VARIABLES
    file,     \* the bytes of the file at the shard's path
    fstate,   \* what the file holds: "old", "building", "sealed"
    host,     \* byte order of the machine each handle runs on
    pc,       \* where each handle is in its life and inside shard_save
    shard,    \* the shard_t of each handle (the FILE's position included)
    ret,      \* value returned by the last call on each handle
    diag,     \* message printed by the last call on each handle
    last,     \* name of the last function that returned on each handle
    out,      \* output parameters of the lookup functions, per handle
    cmph,     \* progress of cmph_new over the key stream
    log,      \* the calls of shard_object_write the writer's caller made
    faults,   \* number of short fwrite calls so far
    oob,      \* an index entry was stored outside the allocated index
    heap      \* what each handle's calls allocated or opened and did not release

vars == <<file, fstate, host, pc, shard, ret, diag, last, out, cmph, log, faults, oob, heap>>

NullHash == [size |-> 0, slot |-> [k \in Keys |-> 0]]
ZeroHeader == [n \in {HeaderFields[i] : i \in 1..Len(HeaderFields)} |-> 0]
\* shard_init: the struct is zeroed, no file is open
ZeroShard ==
    [f |-> "NULL", pos |-> 0, header |-> ZeroHeader, hash |-> NullHash,
     source |-> FALSE, config |-> FALSE, index |-> <<>>, index_offset |-> 0]
NoOut == [key |-> 0, size |-> 0, object |-> <<>>]
\* cmph_new is not running
NoCmph == [passes |-> 0, keys |-> <<>>, eos |-> FALSE]
\* an entry of the index that malloc returned and no one wrote yet
Uninit == [key |-> 0, object_offset |-> 0]
UninitOffsets == {0, 3}

\* --------------------------------------------- wrappers around FILE calls
shard_seek(sh, offset) == [sh EXCEPT !.pos = offset]
shard_tell(sh) == sh.pos
\* fread reads at the position of the handle's own FILE
stream_pos_shared(sh) == IF last["r1"] \in {"shard_lookup_object_size", "shard_lookup_object"}
                         THEN shard["r1"].pos ELSE sh.pos
stream_pos(sh) == sh.pos
shard_read(sh, fl, n) ==
    LET data == IF sh.f = "NULL" THEN <<>> ELSE FRead(fl, stream_pos(sh), n)
    IN  [data |-> data, r |-> IF Len(data) # n THEN -1 ELSE 0,
         pos |-> stream_pos(sh) + Len(data)]
shard_read_uint64_t(sh, fl, hst) ==
    LET rd == shard_read(sh, fl, U64Len)
    IN  [r |-> rd.r, pos |-> rd.pos,
         v |-> IF rd.r = 0 THEN Val(ntohq(hst, FromMem(hst, rd.data))) ELSE 0]
\* fault: "ok", or the fwrite stops short having written nothing ("none")
\* or all but the last byte ("part"); a stream opened "r" writes nothing
shard_write(sh, fl, bytes, fault) ==
    LET n == Len(bytes)
        wrote == IF sh.f # "w+" \/ fault = "none" THEN 0
                 ELSE IF fault = "part" /\ n > 0 THEN n - 1 ELSE n
    IN  [file |-> FWrite(fl, sh.pos, SubSeq(bytes, 1, wrote)),
         pos |-> sh.pos + wrote, r |-> IF wrote # n THEN -1 ELSE 0]
\* (void *)&n_value handed to shard_write after htonq
U64Bytes(hst, v) == ToMem(hst, htonq(hst, Word(v)))
\* the same for a uint64_t of any value, given as its word
WordBytes(hst, w) == ToMem(hst, htonq(hst, w))
\* shard_read_uint64_t before the value is cut to the model's integers
shard_read_word(sh, fl, hst) ==
    LET rd == shard_read(sh, fl, U64Len)
    IN  [r |-> rd.r, pos |-> rd.pos,
         w |-> IF rd.r = 0 THEN ntohq(hst, FromMem(hst, rd.data)) ELSE <<>>]

NoFault == [at |-> 0, kind |-> "ok"]
FaultKinds == {"none", "part"}
Plans(n) == {NoFault} \cup [at : 1..n, kind : FaultKinds]
\* in shard_header_save the first or the last field's write falls short
HeaderPlans == {NoFault} \cup [at : {1, Len(HeaderFields)}, kind : FaultKinds]
FaultAt(plan, i) == IF plan.at = i THEN plan.kind ELSE "ok"
Budget(plan) == plan.at # 0 => faults < MaxFaults
Spend(plan) == faults' = IF plan.at # 0 THEN faults + 1 ELSE faults

\* ------------------------------------------------------- magic and header
MagicOk(fl) == Len(fl) >= MagicLen /\ SubSeq(fl, 1, MagicLen) = SHARD_MAGIC

shard_header_reset_zeroed == ZeroHeader
shard_header_reset ==
    [ZeroHeader EXCEPT !.version = SHARD_VERSION,
                       !.objects_position = SHARD_OFFSET_HEADER]

\* ----------------------------------------------------------- the handlers
ShardInit(h) ==
    /\ pc[h] = "none"
    /\ pc' = [pc EXCEPT ![h] = "init"]
    /\ shard' = [shard EXCEPT ![h] = ZeroShard]
    /\ last' = [last EXCEPT ![h] = "shard_init"]
    /\ ret' = [ret EXCEPT ![h] = 0]
    /\ diag' = [diag EXCEPT ![h] = ""]
    /\ out' = [out EXCEPT ![h] = NoOut]
    /\ heap' = [heap EXCEPT ![h] = {"shard", "path"}]
    /\ UNCHANGED <<file, fstate, host, cmph, log, faults, oob>>

create_mode_update == "r+"
create_mode == "w+"
\* fopen(path, "w+") truncates the file; "r+" would keep its bytes
fopen(fl, mode) == IF mode = "w+" THEN <<>> ELSE fl
shard_reset_noseek(sh) == [sh EXCEPT !.header = shard_header_reset]
shard_reset(sh) == shard_seek([sh EXCEPT !.header = shard_header_reset], SHARD_OFFSET_HEADER)
ShardCreate(h, objects_count) ==
    /\ pc[h] = "init"
    /\ file' = fopen(file, create_mode)
    /\ fstate' = "building"
    /\ shard' = [shard EXCEPT ![h] =
            [shard_reset([@ EXCEPT !.f = "w+"]) EXCEPT
                !.header.objects_count = objects_count,
                !.index = [i \in 1..objects_count |-> Uninit]]]
    /\ pc' = [pc EXCEPT ![h] = "building"]
    /\ last' = [last EXCEPT ![h] = "shard_create"]
    /\ ret' = [ret EXCEPT ![h] = 0]
    /\ diag' = [diag EXCEPT ![h] = ""]
    /\ log' = <<>>
    /\ heap' = [heap EXCEPT ![h] = @ \cup {"FILE", "index"}]
    /\ UNCHANGED <<host, out, cmph, faults, oob>>

\* uint64_t n_object_size = htonq(object_size)
n_object_size_host(hst, object_size) == Word(object_size)
n_object_size(hst, object_size) == htonq(hst, Word(object_size))
\* shard_object_write on a handle with an open file and an index
\* a shard_object_write that would stage its entry only once both writes
\* succeeded
ObjectWrite_stage_last(sh, fl, hst, key, object, plan) ==
    LET entry == [key |-> key, object_offset |-> shard_tell(sh)]
        w1 == shard_write(sh, fl, ToMem(hst, n_object_size(hst, Len(object))),
                          FaultAt(plan, 1))
        sh2 == [sh EXCEPT !.pos = w1.pos]
        w2 == shard_write(sh2, w1.file, object, FaultAt(plan, 2))
    IN  IF w1.r < 0
        THEN [sh |-> sh2, file |-> w1.file, r |-> -1,
              diag |-> "shard_object_write: object_size"]
        ELSE IF w2.r < 0
        THEN [sh |-> [sh2 EXCEPT !.pos = w2.pos], file |-> w2.file, r |-> -1,
              diag |-> "shard_object_write: object"]
        ELSE [sh |-> [sh2 EXCEPT !.pos = w2.pos,
                                 !.index = IF sh.index_offset < Len(sh.index)
                                           THEN [@ EXCEPT ![sh.index_offset + 1] = entry]
                                           ELSE @,
                                 !.index_offset = @ + 1],
              file |-> w2.file, r |-> 0, diag |-> ""]
ObjectWrite(sh, fl, hst, key, object, plan) ==
    LET entry == [key |-> key, object_offset |-> shard_tell(sh)]
        sh1 == [sh EXCEPT
                  !.index = IF sh.index_offset < Len(sh.index)
                            THEN [@ EXCEPT ![sh.index_offset + 1] = entry] ELSE @,
                  !.index_offset = @ + 1]
        w1 == shard_write(sh1, fl, ToMem(hst, n_object_size(hst, Len(object))),
                          FaultAt(plan, 1))
        sh2 == [sh1 EXCEPT !.pos = w1.pos]
        w2 == shard_write(sh2, w1.file, object, FaultAt(plan, 2))
    IN  IF w1.r < 0
        THEN [sh |-> sh2, file |-> w1.file, r |-> -1,
              diag |-> "shard_object_write: object_size"]
        ELSE IF w2.r < 0
        THEN [sh |-> [sh2 EXCEPT !.pos = w2.pos], file |-> w2.file, r |-> -1,
              diag |-> "shard_object_write: object"]
        ELSE [sh |-> [sh2 EXCEPT !.pos = w2.pos], file |-> w2.file, r |-> 0,
              diag |-> ""]

\* the caller keeps to the writer's protocol: at most objects_count writes
\* between shard_create and shard_save, none after one that failed
MayWrite(h) ==
    /\ pc[h] = "building"
    /\ ret[h] = 0
    /\ shard[h].index_offset < shard[h].header.objects_count
\* and gives the shard up when a write failed
MaySave(h) == pc[h] = "building" /\ ret[h] = 0

ShardObjectWrite(h, key, object, plan) ==
    /\ pc[h] \in {"building", "sealed", "save_failed"}
    /\ Budget(plan) /\ Spend(plan)
    /\ LET res == ObjectWrite(shard[h], file, host[h], key, object, plan)
       IN  /\ shard' = [shard EXCEPT ![h] = res.sh]
           /\ file' = res.file
           /\ ret' = [ret EXCEPT ![h] = res.r]
           /\ diag' = [diag EXCEPT ![h] = res.diag]
           /\ oob' = (oob \/ shard[h].index_offset >= Len(shard[h].index))
           /\ log' = Append(log, [key |-> key, object |-> object,
                                  offset |-> shard_tell(shard[h]), r |-> res.r])
    /\ last' = [last EXCEPT ![h] = "shard_object_write"]
    /\ UNCHANGED <<fstate, host, pc, out, cmph, heap>>

\* ------------------------------------------------- the MPHF library (cmph)
\* A built hash: the size cmph_size reports and the slot cmph_search gives
\* each key.  It is injective on the keys it was built from, arbitrary on
\* the others, and cmph_new returns NULL when two keys are equal.
Distinct(keys) == \A i, j \in 1..Len(keys) : keys[i] = keys[j] => i = j
PerfectHashes(keys) ==
    UNION {{[size |-> c, slot |-> g] :
                g \in {g \in [Keys -> 0..(c - 1)] :
                          \A i, j \in 1..Len(keys) :
                              g[keys[i]] = g[keys[j]] => i = j}} :
           c \in Len(keys)..(Len(keys) + MaxSlack)}
cmph_new(keys) == IF Distinct(keys) THEN PerfectHashes(keys) ELSE {NullHash}
cmph_size(hash) == hash.size
cmph_search(hash, key) == hash.slot[key]
\* the blob cmph_dump writes and cmph_load reads back
CMPH_TAG == 200
BlobLen == 2 + NumKeys
cmph_dump(hash) == <<CMPH_TAG, hash.size>> \o [k \in 1..NumKeys |-> hash.slot[k]]
cmph_load(bytes) ==
    IF /\ Len(bytes) = BlobLen
       /\ bytes[1] = CMPH_TAG
       /\ bytes[2] >= 1
       /\ \A k \in Keys : bytes[2 + k] < bytes[2]
    THEN [size |-> bytes[2], slot |-> [k \in Keys |-> bytes[2 + k]]]
    ELSE NullHash

\* ------------------------------------------------------------ shard_save
\* what the entries of the index no shard_object_write filled may hold
Resolved(index) ==
    {ix \in [1..Len(index) ->
                [key : Keys, object_offset : UninitOffsets]
                    \cup {index[i] : i \in 1..Len(index)}] :
        \A i \in 1..Len(index) :
            IF index[i] = Uninit THEN ix[i] # Uninit ELSE ix[i] = index[i]}

save_objects_size_tell(sh) == [sh EXCEPT !.header.objects_size = shard_tell(sh)]
save_objects_size(sh) ==
    [sh EXCEPT !.header.objects_size = shard_tell(sh) - sh.header.objects_position]
\* shard_save up to the call of cmph_new inside shard_hash_create
ShardSaveBegin(h) ==
    /\ pc[h] = "building"
    /\ \E ix \in Resolved(shard[h].index) :
         shard' = [shard EXCEPT ![h] =
            [save_objects_size(shard[h]) EXCEPT
                !.source = TRUE, !.config = TRUE, !.index = ix]]
    /\ cmph' = NoCmph
    /\ pc' = [pc EXCEPT ![h] = "cmph_new"]
    /\ heap' = [heap EXCEPT ![h] = @ \cup {"source", "config"}]
    /\ UNCHANGED <<file, fstate, host, ret, diag, last, out, log, faults, oob>>

nkeys(sh) == sh.header.objects_count

io_rewind(sh) == [sh EXCEPT !.index_offset = 0]
IoRewind(h) ==
    /\ pc[h] = "cmph_new"
    /\ cmph.passes < MaxPasses
    /\ shard' = [shard EXCEPT ![h] = io_rewind(@)]
    /\ cmph' = [passes |-> cmph.passes + 1, keys |-> <<>>, eos |-> FALSE]
    /\ UNCHANGED <<file, fstate, host, pc, ret, diag, last, out, log, faults, oob, heap>>

\* a read that signals the end only once the cursor is past the last entry
io_read_late(sh) ==
    [key |-> sh.index[sh.index_offset + 1].key,
     sh |-> [sh EXCEPT !.index_offset = @ + 1],
     r |-> IF sh.index_offset + 1 > sh.header.objects_count THEN -1 ELSE 0]
io_read(sh) ==
    [key |-> sh.index[sh.index_offset + 1].key,
     sh |-> [sh EXCEPT !.index_offset = @ + 1],
     r |-> IF sh.index_offset + 1 >= sh.header.objects_count THEN -1 ELSE 0]
IoRead(h) ==
    /\ pc[h] = "cmph_new"
    /\ cmph.passes >= 1
    /\ Len(cmph.keys) < nkeys(shard[h])
    /\ LET rd == io_read(shard[h])
       IN  /\ shard' = [shard EXCEPT ![h] = rd.sh]
           /\ cmph' = [cmph EXCEPT !.keys = Append(@, rd.key), !.eos = (rd.r < 0)]
    /\ UNCHANGED <<file, fstate, host, pc, ret, diag, last, out, log, faults, oob, heap>>

\* cmph_new returns after a full pass; shard_hash_create returns 0 whatever
\* cmph_new returned
ShardHashCreate(h) ==
    /\ pc[h] = "cmph_new"
    /\ cmph.passes >= 1
    /\ Len(cmph.keys) = nkeys(shard[h])
    /\ \E hash \in cmph_new(cmph.keys) :
         shard' = [shard EXCEPT ![h].hash = hash]
    /\ pc' = [pc EXCEPT ![h] = "index_save"]
    /\ cmph' = [cmph EXCEPT !.keys = <<>>, !.eos = FALSE]
    /\ heap' = [heap EXCEPT ![h] = IF shard'[h].hash # NullHash THEN @ \cup {"hash"} ELSE @]
    /\ UNCHANGED <<file, fstate, host, ret, diag, last, out, log, faults, oob>>

Cat(ws) == [i \in 1..(U64Len * Len(ws)) |-> ws[((i - 1) \div U64Len) + 1][((i - 1) % U64Len) + 1]]
MaxOf(S) == CHOOSE x \in S : \A y \in S : y <= x

index_slot_by_position(sh, i) == i - 1
index_slot(sh, i) == cmph_search(sh.hash, sh.index[i].key)
\* the array if it were not zeroed: a slot no entry is sent to holds garbage
IndexTable_malloc(sh, hst) ==
    [j \in 1..cmph_size(sh.hash) |->
        LET S == {i \in 1..sh.index_offset : index_slot(sh, i) = j - 1}
        IN  IF S = {} THEN Word(1)
            ELSE htonq(hst, Word(sh.index[MaxOf(S)].object_offset))]
\* the calloc'ed array after the loop of shard_index_save: a slot holds
\* htonq of the offset of the last entry the hash sends there, else 0
IndexTable(sh, hst) ==
    [j \in 1..cmph_size(sh.hash) |->
        LET S == {i \in 1..sh.index_offset : index_slot(sh, i) = j - 1}
        IN  IF S = {} THEN Word(0)
            ELSE htonq(hst, Word(sh.index[MaxOf(S)].object_offset))]

\* shard_index_save on a hash that is not NULL
IndexSave(sh, fl, hst, plan) ==
    LET sh1 == [sh EXCEPT !.header.index_position =
                              sh.header.objects_position + sh.header.objects_size]
        count == cmph_size(sh1.hash)
        sh2 == [sh1 EXCEPT !.header.index_size = count * U64Len]
        asserts == /\ sh1.header.index_position = shard_tell(sh1)
                   /\ \A i \in 1..sh.index_offset : index_slot(sh, i) < count
        w == shard_write(sh2, fl, Cat([j \in 1..count |-> ToMem(hst, IndexTable(sh2, hst)[j])]),
                         FaultAt(plan, 1))
    IN  IF ~asserts
        THEN [sh |-> sh1, file |-> fl, r |-> 0, diag |-> "", abort |-> TRUE]
        ELSE [sh |-> [sh2 EXCEPT !.pos = w.pos], file |-> w.file, r |-> w.r,
              diag |-> IF w.r < 0 THEN "shard_index_save" ELSE "", abort |-> FALSE]

\* a call that returns -1 ends shard_save; one that returns 0 lets it go on
SaveStep(h, res, next) ==
    /\ shard' = [shard EXCEPT ![h] = res.sh]
    /\ file' = res.file
    /\ IF res.r < 0
       THEN /\ pc' = [pc EXCEPT ![h] = "save_failed"]
            /\ ret' = [ret EXCEPT ![h] = -1]
            /\ diag' = [diag EXCEPT ![h] = res.diag]
            /\ last' = [last EXCEPT ![h] = "shard_save"]
            /\ UNCHANGED fstate
       ELSE /\ pc' = [pc EXCEPT ![h] = next]
            /\ IF next = "sealed"
               THEN /\ ret' = [ret EXCEPT ![h] = 0]
                    /\ diag' = [diag EXCEPT ![h] = ""]
                    /\ last' = [last EXCEPT ![h] = "shard_save"]
                    /\ fstate' = "sealed"
               ELSE UNCHANGED <<ret, diag, last, fstate>>

ShardIndexSave(h, plan) ==
    /\ pc[h] = "index_save"
    /\ shard[h].hash # NullHash
    /\ Budget(plan) /\ Spend(plan)
    /\ LET res == IndexSave(shard[h], file, host[h], plan)
       IN  IF res.abort
           THEN /\ pc' = [pc EXCEPT ![h] = "crashed"]
                /\ shard' = [shard EXCEPT ![h] = res.sh]
                /\ UNCHANGED <<file, fstate, ret, diag, last>>
           ELSE SaveStep(h, res, "hash_save")
    /\ cmph' = IF pc'[h] = "hash_save" THEN cmph ELSE NoCmph
    /\ heap' = [heap EXCEPT ![h] = IF pc'[h] = "hash_save" THEN @ ELSE @ \cup {"table"}]
    /\ UNCHANGED <<host, out, log, oob>>

\* cmph_size(NULL) in shard_index_save reads through a null pointer: the
\* process is killed by the signal, shard_save never returns
ShardIndexSaveNull(h) ==
    /\ pc[h] = "index_save"
    /\ shard[h].hash = NullHash
    /\ pc' = [pc EXCEPT ![h] = "crashed"]
    /\ cmph' = NoCmph
    /\ UNCHANGED <<file, fstate, host, shard, ret, diag, last, out, log, faults, oob, heap>>

\* shard_hash_save: cmph_dump writes at the current position and its fwrite
\* result is not looked at
HashSave(sh, fl, hst, plan) ==
    LET sh1 == [sh EXCEPT !.header.hash_position =
                              sh.header.index_position + sh.header.index_size]
        w == shard_write(sh1, fl, cmph_dump(sh1.hash), FaultAt(plan, 1))
    IN  [sh |-> [sh1 EXCEPT !.pos = w.pos], file |-> w.file, r |-> 0, diag |-> ""]
ShardHashSave(h, plan) ==
    /\ pc[h] = "hash_save"
    /\ Budget(plan) /\ Spend(plan)
    /\ SaveStep(h, HashSave(shard[h], file, host[h], plan), "header_save")
    /\ cmph' = NoCmph
    /\ UNCHANGED <<host, out, log, oob, heap>>

\* the seven SAVE(name) of shard_header_save write one after the other from
\* SHARD_OFFSET_MAGIC on and stop at the first shard_write that fails
HeaderBytes(sh, hst) ==
    Cat([i \in 1..Len(HeaderFields) |-> U64Bytes(hst, sh.header[HeaderFields[i]])])
shard_header_save(sh, fl, hst, plan) ==
    LET failed == IF sh.f # "w+" THEN 1 ELSE plan.at
        wrote == IF failed = 0 THEN HeaderLen
                 ELSE U64Len * (failed - 1)
                      + (IF sh.f = "w+" /\ plan.kind = "part" THEN U64Len - 1 ELSE 0)
    IN  [sh |-> [sh EXCEPT !.pos = SHARD_OFFSET_MAGIC + wrote],
         file |-> FWrite(fl, SHARD_OFFSET_MAGIC, SubSeq(HeaderBytes(sh, hst), 1, wrote)),
         r |-> IF failed = 0 THEN 0 ELSE -1,
         diag |-> IF failed = 0 THEN "" ELSE "shard_header_save " \o HeaderFields[failed]]
ShardHeaderSave(h, plan) ==
    /\ pc[h] = "header_save"
    /\ Budget(plan) /\ Spend(plan)
    /\ SaveStep(h, shard_header_save(shard[h], file, host[h], plan), "magic_save")
    /\ UNCHANGED <<host, out, cmph, log, oob, heap>>

shard_magic_save(sh, fl, plan) ==
    LET w == shard_write(shard_seek(sh, 0), fl, SHARD_MAGIC, FaultAt(plan, 1))
    IN  [sh |-> [sh EXCEPT !.pos = w.pos], file |-> w.file, r |-> w.r,
         diag |-> IF w.r < 0 THEN "shard_magic_save: write" ELSE ""]
ShardMagicSave(h, plan) ==
    /\ pc[h] = "magic_save"
    /\ Budget(plan) /\ Spend(plan)
    /\ SaveStep(h, shard_magic_save(shard[h], file, plan), "sealed")
    /\ UNCHANGED <<host, out, cmph, log, oob, heap>>

\* ------------------------------------------------------------ shard_load
shard_magic_load(sh, fl) ==
    LET rd == shard_read(shard_seek(sh, 0), fl, MagicLen)
        sh1 == [sh EXCEPT !.pos = rd.pos]
    IN  IF rd.r < 0
        THEN [sh |-> sh1, r |-> -1, diag |-> "shard_magic_load: read"]
        ELSE IF rd.data # SHARD_MAGIC
        THEN [sh |-> sh1, r |-> -1, diag |-> "shard_magic_load: memcmp"]
        ELSE [sh |-> sh1, r |-> 0, diag |-> ""]

\* the seven LOAD(name) of shard_header_load read one after the other and
\* stop at the first short read; the fields read before it stay assigned
LoadFields(sh, fl, hst) ==
    LET avail == shard_read(sh, fl, HeaderLen).data
        nfull == Len(avail) \div U64Len
        field(i) == SubSeq(avail, U64Len * (i - 1) + 1, U64Len * i)
        header == [n \in DOMAIN sh.header |->
                     IF \E i \in 1..nfull : HeaderFields[i] = n
                     THEN LET i == CHOOSE i \in 1..nfull : HeaderFields[i] = n
                          IN  Val(ntohq(hst, FromMem(hst, field(i))))
                     ELSE sh.header[n]]
    IN  [sh |-> [sh EXCEPT !.pos = sh.pos + Len(avail), !.header = header],
         r |-> IF nfull < Len(HeaderFields) THEN -1 ELSE 0,
         diag |-> IF nfull < Len(HeaderFields)
                  THEN "shard_header_load: " \o HeaderFields[nfull + 1] ELSE ""]
version_accepted_any(version) == TRUE
version_accepted(version) == version = SHARD_VERSION
shard_header_load(sh, fl, hst) ==
    LET ld == LoadFields(shard_seek(sh, SHARD_OFFSET_MAGIC), fl, hst)
    IN  IF ld.r < 0 THEN ld
        ELSE IF ~version_accepted(ld.sh.header.version)
        THEN [sh |-> ld.sh, r |-> -1, diag |-> "shard_header_load: unexpected version"]
        ELSE ld

shard_hash_load(sh, fl) ==
    LET rd == shard_read(shard_seek(sh, sh.header.hash_position), fl, BlobLen)
        hash == cmph_load(rd.data)
        sh1 == [sh EXCEPT !.pos = rd.pos, !.hash = hash]
    IN  IF hash = NullHash
        THEN [sh |-> sh1, r |-> -1, diag |-> "shard_hash_load: cmph_load"]
        ELSE [sh |-> sh1, r |-> 0, diag |-> ""]

shard_load_unchecked(sh, fl, hst) ==
    LET hd == shard_header_load([sh EXCEPT !.f = "r"], fl, hst)
    IN  IF hd.r < 0 THEN hd ELSE shard_hash_load(hd.sh, fl)
shard_load(sh, fl, hst) ==
    LET mg == shard_magic_load([sh EXCEPT !.f = "r"], fl)
        hd == shard_header_load(mg.sh, fl, hst)
    IN  IF mg.r < 0 THEN mg
        ELSE IF hd.r < 0 THEN hd
        ELSE shard_hash_load(hd.sh, fl)

ShardLoad(h) ==
    /\ pc[h] = "init"
    /\ LET res == shard_load(shard[h], file, host[h])
       IN  /\ shard' = [shard EXCEPT ![h] = res.sh]
           /\ ret' = [ret EXCEPT ![h] = res.r]
           /\ diag' = [diag EXCEPT ![h] = res.diag]
           /\ pc' = [pc EXCEPT ![h] = IF res.r < 0 THEN "load_failed" ELSE "reading"]
    /\ last' = [last EXCEPT ![h] = "shard_load"]
    /\ heap' = [heap EXCEPT ![h] =
                  @ \cup {"FILE"} \cup (IF shard'[h].hash # NullHash THEN {"hash"} ELSE {})]
    /\ UNCHANGED <<file, fstate, host, out, cmph, log, faults, oob>>

\* shard_load or shard_create when fopen fails: shard_open returns -1 with
\* shard->f NULL and nothing else runs
ShardNoOpen(h, name) ==
    /\ pc[h] = "init"
    /\ faults < MaxFaults
    /\ faults' = faults + 1
    /\ ret' = [ret EXCEPT ![h] = -1]
    /\ diag' = [diag EXCEPT ![h] = "shard_open: open"]
    /\ last' = [last EXCEPT ![h] = name]
    /\ UNCHANGED <<file, fstate, host, pc, shard, out, cmph, log, oob, heap>>
ShardLoadNoOpen(h) == ShardNoOpen(h, "shard_load")
ShardCreateNoOpen(h) == ShardNoOpen(h, "shard_create")

\* ---------------------------------------------------------------- lookup
\* a size lookup that leaves the position at the start of the entry
lookup_object_size_peek(sh, fl, hst, key) ==
    LET h == cmph_search(sh.hash, key)
        index_offset == sh.header.index_position + h * U64Len
        o == shard_read_uint64_t(shard_seek(sh, index_offset), fl, hst)
        s == shard_read_uint64_t(shard_seek(sh, o.v), fl, hst)
    IN  IF o.r < 0
        THEN [sh |-> [sh EXCEPT !.pos = o.pos], r |-> -1, set |-> FALSE, size |-> 0,
              diag |-> "shard_lookup_object_size: object_offset"]
        ELSE IF s.r < 0
        THEN [sh |-> [sh EXCEPT !.pos = s.pos], r |-> -1, set |-> FALSE, size |-> 0,
              diag |-> "shard_lookup_object_size: object_size"]
        ELSE [sh |-> [sh EXCEPT !.pos = o.v], r |-> 0, set |-> TRUE, size |-> s.v,
              diag |-> ""]
\* shard_lookup_object_size on a hash that is not NULL
lookup_object_size(sh, fl, hst, key) ==
    LET h == cmph_search(sh.hash, key)
        index_offset == sh.header.index_position + h * U64Len
        o == shard_read_uint64_t(shard_seek(sh, index_offset), fl, hst)
        s == shard_read_uint64_t(shard_seek(sh, o.v), fl, hst)
    IN  IF o.r < 0
        THEN [sh |-> [sh EXCEPT !.pos = o.pos], r |-> -1, set |-> FALSE, size |-> 0,
              diag |-> "shard_lookup_object_size: object_offset"]
        ELSE IF s.r < 0
        THEN [sh |-> [sh EXCEPT !.pos = s.pos], r |-> -1, set |-> FALSE, size |-> 0,
              diag |-> "shard_lookup_object_size: object_size"]
        ELSE [sh |-> [sh EXCEPT !.pos = s.pos], r |-> 0, set |-> TRUE, size |-> s.v,
              diag |-> ""]

ShardLookupObjectSize(h, key) ==
    /\ pc[h] \in {"reading", "sealed"}
    /\ LET res == lookup_object_size(shard[h], file, host[h], key)
       IN  /\ shard' = [shard EXCEPT ![h] = res.sh]
           /\ ret' = [ret EXCEPT ![h] = res.r]
           /\ diag' = [diag EXCEPT ![h] = res.diag]
           /\ out' = [out EXCEPT ![h] =
                        [key |-> key, size |-> IF res.set THEN res.size ELSE @.size,
                         object |-> <<>>]]
    /\ last' = [last EXCEPT ![h] = "shard_lookup_object_size"]
    /\ UNCHANGED <<file, fstate, host, pc, cmph, log, faults, oob, heap>>

\* shard_lookup_object after a size lookup that returned 0, object_size
\* being the size the caller passes
ShardLookupObjectOf(h, object_size) ==
    /\ pc[h] \in {"reading", "sealed"}
    /\ last[h] = "shard_lookup_object_size" /\ ret[h] = 0
    /\ LET rd == shard_read(shard[h], file, object_size)
       IN  /\ shard' = [shard EXCEPT ![h].pos = rd.pos]
           /\ ret' = [ret EXCEPT ![h] = rd.r]
           /\ diag' = [diag EXCEPT ![h] =
                         IF rd.r < 0 THEN "shard_lookup_object: object" ELSE ""]
           /\ out' = [out EXCEPT ![h].object = rd.data]
    /\ last' = [last EXCEPT ![h] = "shard_lookup_object"]
    /\ UNCHANGED <<file, fstate, host, pc, cmph, log, faults, oob, heap>>
\* the caller passes the size the last shard_lookup_object_size gave
ShardLookupObject(h) == ShardLookupObjectOf(h, out[h].size)

\* --------------------------------------------------------- shard_destroy
\* fclose returns 0 or EOF
EOF == -1
shard_close_zero(sh, status) == 0
shard_close(sh, status) == IF sh.f = "NULL" THEN 0 ELSE status
\* what shard_destroy frees or closes: each pointer that is not NULL, the
\* path and the shard_t itself
Released(sh) ==
    {"path", "shard"}
    \cup (IF sh.source THEN {"source"} ELSE {})
    \cup (IF sh.config THEN {"config"} ELSE {})
    \cup (IF sh.hash # NullHash THEN {"hash"} ELSE {})
    \cup (IF sh.index # <<>> THEN {"index"} ELSE {})
    \cup (IF sh.f # "NULL" THEN {"FILE"} ELSE {})
\* shard_destroy, status being what fclose returns if it is called
ShardDestroy(h, status) ==
    /\ pc[h] \in {"init", "building", "sealed", "save_failed", "reading", "load_failed"}
    /\ status # 0 => shard[h].f # "NULL" /\ faults < MaxFaults
    /\ faults' = IF status # 0 THEN faults + 1 ELSE faults
    /\ ret' = [ret EXCEPT ![h] = shard_close(shard[h], status)]
    /\ diag' = [diag EXCEPT ![h] = IF shard_close(shard[h], status) < 0
                                   THEN "shard_close: fclose" ELSE ""]
    /\ pc' = [pc EXCEPT ![h] = "none"]
    /\ shard' = [shard EXCEPT ![h] = ZeroShard]
    /\ last' = [last EXCEPT ![h] = "shard_destroy"]
    /\ out' = [out EXCEPT ![h] = NoOut]
    /\ heap' = [heap EXCEPT ![h] = @ \ Released(shard[h])]
    /\ UNCHANGED <<file, fstate, host, cmph, log, oob>>

\* ------------------------------------------------------- specifications
\* a shard an earlier run left at the path: one object, sealed
PrevShard ==
    LET hst == "BE"
        s0 == [shard_reset([ZeroShard EXCEPT !.f = "w+"]) EXCEPT
                  !.header.objects_count = 1, !.index = <<Uninit>>]
        a == ObjectWrite(s0, <<>>, hst, 1, <<65>>, NoFault)
        s1 == [save_objects_size(a.sh) EXCEPT
                  !.hash = [size |-> 1, slot |-> [k \in Keys |-> 0]]]
        b == IndexSave(s1, a.file, hst, NoFault)
        c == HashSave(b.sh, b.file, hst, NoFault)
        d == shard_header_save(c.sh, c.file, hst, NoFault)
    IN  shard_magic_save(d.sh, d.file, NoFault).file

Init ==
    /\ file \in {<<>>, PrevShard}
    /\ fstate = "old"
    /\ host \in {hh \in [Handles -> Hosts] : hh["r1"] = hh["r2"] /\ hh["w"] # hh["r1"]}
    /\ pc = [h \in Handles |-> "none"]
    /\ shard = [h \in Handles |-> ZeroShard]
    /\ ret = [h \in Handles |-> 0]
    /\ diag = [h \in Handles |-> ""]
    /\ last = [h \in Handles |-> ""]
    /\ out = [h \in Handles |-> NoOut]
    /\ cmph = NoCmph
    /\ log = <<>>
    /\ faults = 0
    /\ oob = FALSE
    /\ heap = [h \in Handles |-> {}]

\* the keys are interchangeable: the caller numbers them in the order it
\* first writes them
NextKeys(h) == {k \in Keys : \A j \in 1..(k - 1) : \E i \in 1..Len(log) : log[i].key = j}

\* no reader holds the path open while the writer works on it
Quiet == \A h \in Handles \ {"w"} : pc[h] = "none"

\* the writer's caller: one shard_create at the path, at most objects_count
\* writes, one shard_save
Writer(h) ==
    \/ Quiet /\ fstate = "old" /\ ShardInit(h)
    \/ Quiet /\ fstate = "old" /\ \E n \in 1..MaxCount : ShardCreate(h, n)
    \/ Quiet /\ MayWrite(h)
             /\ \E key \in NextKeys(h), object \in Objects, plan \in Plans(2) :
                    ShardObjectWrite(h, key, object, plan)
    \/ Quiet /\ MaySave(h) /\ ShardSaveBegin(h)
    \/ Quiet /\ IoRewind(h)
    \/ Quiet /\ IoRead(h)
    \/ Quiet /\ ShardHashCreate(h)
    \/ Quiet /\ \E plan \in Plans(1) : ShardIndexSave(h, plan)
    \/ Quiet /\ ShardIndexSaveNull(h)
    \/ Quiet /\ \E plan \in Plans(1) : ShardHashSave(h, plan)
    \/ Quiet /\ \E plan \in HeaderPlans : ShardHeaderSave(h, plan)
    \/ Quiet /\ \E plan \in Plans(1) : ShardMagicSave(h, plan)
    \/ Quiet /\ ShardDestroy(h, 0)

\* a reader's caller: shard_load, then lookups
Reader(h) ==
    \/ ShardInit(h)
    \/ ShardLoad(h)
    \/ pc[h] = "reading" /\ \E key \in Keys : ShardLookupObjectSize(h, key)
    \/ pc[h] = "reading" /\ ShardLookupObject(h)
    \/ pc[h] # "none" /\ ShardDestroy(h, 0)

Next == Writer("w") \/ Reader("r1")
Spec == Init /\ [][Next]_vars


\* ------------------------------------------- callers that break the protocol
\* shard_object_write on a handle whose index is NULL (no shard_create ran):
\* the memcpy into index->key stores through a null pointer
ShardObjectWriteNull(h) ==
    /\ pc[h] \in {"init", "reading", "load_failed"}
    /\ pc' = [pc EXCEPT ![h] = "crashed"]
    /\ UNCHANGED <<file, fstate, host, shard, ret, diag, last, out, cmph, log, faults, oob, heap>>

\* shard_object_write with index_offset at or past the allocated entries: the
\* store lands outside the block, and the damaged heap kills the process
ShardObjectWriteSmash(h) ==
    /\ pc[h] \in {"building", "sealed"}
    /\ shard[h].index_offset >= Len(shard[h].index)
    /\ oob' = TRUE
    /\ pc' = [pc EXCEPT ![h] = "crashed"]
    /\ UNCHANGED <<file, fstate, host, shard, ret, diag, last, out, cmph, log, faults, heap>>

\* ... or goes unnoticed and the call carries on (the caller tries it while
\* the stream's position is inside the file)
MayOverflow(h) ==
    /\ pc[h] \in {"building", "sealed"}
    /\ shard[h].index_offset >= Len(shard[h].index)
    /\ shard[h].index_offset < Len(shard[h].index) + MaxExtra
    /\ last[h] \in {"shard_create", "shard_object_write", "shard_save"}

\* shard_lookup_object_size on a handle whose hash is NULL: cmph_search reads
\* through the null pointer
ShardLookupNull(h) ==
    /\ pc[h] \in {"init", "building", "load_failed"}
    /\ shard[h].hash = NullHash
    /\ pc' = [pc EXCEPT ![h] = "crashed"]
    /\ UNCHANGED <<file, fstate, host, shard, ret, diag, last, out, cmph, log, faults, oob, heap>>

MisusingWriter(h) ==
    \/ Quiet /\ fstate = "old" /\ ShardInit(h)
    \/ Quiet /\ fstate = "old" /\ \E n \in 1..MaxCount : ShardCreate(h, n)
    \/ Quiet /\ MayWrite(h)
             /\ \E key \in NextKeys(h), object \in Objects :
                    ShardObjectWrite(h, key, object, NoFault)
    \/ Quiet /\ MayOverflow(h)
             /\ \E key \in NextKeys(h), object \in Objects :
                    ShardObjectWrite(h, key, object, NoFault)
    \/ Quiet /\ ShardObjectWriteSmash(h)
    \/ Quiet /\ ShardObjectWriteNull(h)
    \/ Quiet /\ MaySave(h) /\ ~oob /\ ShardSaveBegin(h)
    \/ Quiet /\ IoRewind(h)
    \/ Quiet /\ IoRead(h)
    \/ Quiet /\ ShardHashCreate(h)
    \/ Quiet /\ ShardIndexSave(h, NoFault)
    \/ Quiet /\ ShardIndexSaveNull(h)
    \/ Quiet /\ ShardHashSave(h, NoFault)
    \/ Quiet /\ ShardHeaderSave(h, NoFault)
    \/ Quiet /\ ShardMagicSave(h, NoFault)
    \/ Quiet /\ ~oob /\ \E key \in Keys : ShardLookupObjectSize(h, key)
    \/ Quiet /\ ShardLookupObject(h)
    \/ Quiet /\ ShardLookupNull(h)
    \/ Quiet /\ ShardDestroy(h, 0)

\* a reader that comes when the writer has left
MisusingReader(h) ==
    \/ pc["w"] = "none" /\ ShardInit(h)
    \/ ShardLoad(h)
    \/ ShardLookupNull(h)
    \/ ShardObjectWriteNull(h)
    \/ pc[h] # "none" /\ ShardDestroy(h, 0)

\* a new path, the writer on a little-endian machine
InitMisuse == Init /\ file = <<>> /\ host["w"] = "LE"
NextMisuse == MisusingWriter("w") \/ MisusingReader("r1")
SpecMisuse == InitMisuse /\ [][NextMisuse]_vars


\* ------------------------------------------------- readers of a given file
\* a sealed shard of two objects whose table has one slot more than keys
PrevShard2 ==
    LET hst == "LE"
        s0 == [shard_reset([ZeroShard EXCEPT !.f = "w+"]) EXCEPT
                  !.header.objects_count = 2, !.index = <<Uninit, Uninit>>]
        a == ObjectWrite(s0, <<>>, hst, 1, <<66, 67>>, NoFault)
        a2 == ObjectWrite(a.sh, a.file, hst, 2, <<>>, NoFault)
        s1 == [save_objects_size(a2.sh) EXCEPT
                  !.hash = [size |-> 3, slot |-> [k \in Keys |-> (3 - k) % 3]]]
        b == IndexSave(s1, a2.file, hst, NoFault)
        c == HashSave(b.sh, b.file, hst, NoFault)
        d == shard_header_save(c.sh, c.file, hst, NoFault)
    IN  shard_magic_save(d.sh, d.file, NoFault).file
SealedFiles == {PrevShard, PrevShard2}
\* one byte of the magic changed
MagicFlips(fl) ==
    {[fl EXCEPT ![i] = (@ + d) % 256] : i \in 1..MagicLen, d \in {1, 128}}
\* the file cut inside the magic or inside the header
Cuts(fl) ==
    {SubSeq(fl, 1, n) : n \in (0..(MagicLen - 1)) \cup {MagicLen, MagicLen + U64Len,
                                                        MagicLen + HeaderLen - 1}}
\* another number in the version field
Versions == {0, SHARD_VERSION + 1, 256 * SHARD_VERSION, 16777216}
Reversioned(fl) == {FWrite(fl, SHARD_OFFSET_MAGIC, bswap64(Word(v))) : v \in Versions}
LoadFiles ==
    SealedFiles
    \cup UNION {MagicFlips(fl) \cup Cuts(fl) \cup Reversioned(fl) : fl \in SealedFiles}
    \cup UNION {MagicFlips(fl) : fl \in Reversioned(PrevShard)}

InitLoad ==
    /\ file \in LoadFiles
    /\ fstate = "old"
    /\ host \in {hh \in [Handles -> Hosts] : hh["w"] = hh["r1"]}
    /\ pc = [h \in Handles |-> "none"]
    /\ shard = [h \in Handles |-> ZeroShard]
    /\ ret = [h \in Handles |-> 0]
    /\ diag = [h \in Handles |-> ""]
    /\ last = [h \in Handles |-> ""]
    /\ out = [h \in Handles |-> NoOut]
    /\ cmph = NoCmph
    /\ log = <<>>
    /\ faults = 0
    /\ oob = FALSE
    /\ heap = [h \in Handles |-> {}]
NextLoad == Reader("r1") \/ Reader("r2")
SpecLoad == InitLoad /\ [][NextLoad]_vars


\* ------------------------------- a writer that goes on after a failed write
\* the caller stays within the capacity but calls shard_object_write again
\* when a call returned -1
MayWriteOn(h) ==
    /\ pc[h] = "building"
    /\ shard[h].index_offset < shard[h].header.objects_count
PersistentWriter(h) ==
    \/ fstate = "old" /\ ShardInit(h)
    \/ fstate = "old" /\ \E n \in 1..MaxCount : ShardCreate(h, n)
    \/ MayWriteOn(h) /\ \E key \in Keys, object \in Objects, plan \in Plans(2) :
            ShardObjectWrite(h, key, object, plan)
    \/ ShardDestroy(h, 0)
NextWrites == PersistentWriter("w")
SpecWrites == Init /\ [][NextWrites]_vars

\* ------------------------------------- a writer and a reader, where fopen
\* and fclose may fail as well
FailingOpen ==
    \/ Quiet /\ ShardCreateNoOpen("w")
    \/ ShardLoadNoOpen("r1")
FailingClose ==
    \/ Quiet /\ ShardDestroy("w", EOF)
    \/ ShardDestroy("r1", EOF)
InitRelease == Init /\ file = <<>> /\ host["w"] = "LE"
NextRelease == Writer("w") \/ Reader("r1") \/ FailingOpen \/ FailingClose
SpecRelease == InitRelease /\ [][NextRelease]_vars

\* ------------------- a reader that passes sizes of its own to shard_lookup_object
LookupObjects == {<<>>, <<65>>, <<66, 67>>, <<68, 69>>}
\* a sealed shard holding o1 under key 1 and o2 under key 2
SealedPair(o1, o2, hsh) ==
    LET hst == "LE"
        s0 == [shard_reset([ZeroShard EXCEPT !.f = "w+"]) EXCEPT
                  !.header.objects_count = 2, !.index = <<Uninit, Uninit>>]
        a == ObjectWrite(s0, <<>>, hst, 1, o1, NoFault)
        a2 == ObjectWrite(a.sh, a.file, hst, 2, o2, NoFault)
        s1 == [save_objects_size(a2.sh) EXCEPT !.hash = hsh]
        b == IndexSave(s1, a2.file, hst, NoFault)
        c == HashSave(b.sh, b.file, hst, NoFault)
        d == shard_header_save(c.sh, c.file, hst, NoFault)
    IN  shard_magic_save(d.sh, d.file, NoFault).file
LookupFiles ==
    {SealedPair(o1, o2, hsh) :
        o1 \in LookupObjects, o2 \in LookupObjects, hsh \in cmph_new(<<1, 2>>)}
\* the sizes a caller may have been given by earlier size lookups
PassedSizes == {Len(o) : o \in LookupObjects}
InitLookup ==
    /\ file \in LookupFiles
    /\ fstate = "old"
    /\ host \in {hh \in [Handles -> Hosts] : hh["w"] = hh["r1"] /\ hh["r2"] = hh["r1"]}
    /\ pc = [h \in Handles |-> "none"]
    /\ shard = [h \in Handles |-> ZeroShard]
    /\ ret = [h \in Handles |-> 0]
    /\ diag = [h \in Handles |-> ""]
    /\ last = [h \in Handles |-> ""]
    /\ out = [h \in Handles |-> NoOut]
    /\ cmph = NoCmph
    /\ log = <<>>
    /\ faults = 0
    /\ oob = FALSE
    /\ heap = [h \in Handles |-> {}]
NextLookup ==
    \/ Reader("r1")
    \/ \E object_size \in PassedSizes : ShardLookupObjectOf("r1", object_size)
SpecLookup == InitLookup /\ [][NextLookup]_vars

\* ------------------------- a writer of three objects of sizes 0, 1 and 2000
BigSize == 2000
SizedCount == 3
SizedObjects == {<<>>, <<65>>, [i \in 1..BigSize |-> 66]}
SizesWriter(h) ==
    \/ fstate = "old" /\ ShardInit(h)
    \/ fstate = "old" /\ ShardCreate(h, SizedCount)
    \/ MayWrite(h) /\ \E key \in NextKeys(h), object \in SizedObjects, plan \in Plans(2) :
            ShardObjectWrite(h, key, object, plan)
    \/ MaySave(h) /\ ShardSaveBegin(h)
    \/ IoRewind(h)
    \/ IoRead(h)
    \/ ShardHashCreate(h)
    \/ ShardIndexSave(h, NoFault)
    \/ ShardIndexSaveNull(h)
    \/ ShardHashSave(h, NoFault)
    \/ ShardHeaderSave(h, NoFault)
    \/ ShardMagicSave(h, NoFault)
    \/ ShardDestroy(h, 0)
InitSizes == Init /\ file = <<>> /\ host["w"] = "LE"
NextSizes == SizesWriter("w")
SpecSizes == InitSizes /\ [][NextSizes]_vars

\* --------------------- one uint64_t of any value written by one machine and
\* read by another
ByteSamples == {0, 1, 255}
Words == [1..U64Len -> ByteSamples]
\* n_value = htonq(value); shard_write(shard, &n_value, sizeof(uint64_t)),
\* right after shard_create
WriteUint64(h, w) ==
    /\ pc[h] = "building" /\ last[h] = "shard_create"
    /\ LET wr == shard_write(shard[h], file, WordBytes(host[h], w), "ok")
       IN  /\ file' = wr.file
           /\ shard' = [shard EXCEPT ![h].pos = wr.pos]
           /\ ret' = [ret EXCEPT ![h] = wr.r]
    /\ out' = [out EXCEPT ![h].object = w]
    /\ last' = [last EXCEPT ![h] = "shard_write"]
    /\ UNCHANGED <<fstate, host, pc, diag, cmph, log, faults, oob, heap>>
\* shard_open(shard, "r"), shard_seek to where the writer wrote, and
\* shard_read_uint64_t
ReadUint64(h) ==
    /\ pc[h] = "init" /\ last[h] = "shard_init"
    /\ last["w"] = "shard_write"
    /\ LET sh == shard_seek([shard[h] EXCEPT !.f = "r"], SHARD_OFFSET_HEADER)
           rd == shard_read_word(sh, file, host[h])
       IN  /\ shard' = [shard EXCEPT ![h] = [sh EXCEPT !.pos = rd.pos]]
           /\ ret' = [ret EXCEPT ![h] = rd.r]
           /\ out' = [out EXCEPT ![h].object = rd.w]
    /\ last' = [last EXCEPT ![h] = "shard_read_uint64_t"]
    /\ heap' = [heap EXCEPT ![h] = @ \cup {"FILE"}]
    /\ UNCHANGED <<file, fstate, host, pc, diag, cmph, log, faults, oob>>
InitWords ==
    /\ file = <<>>
    /\ fstate = "old"
    /\ host \in {hh \in [Handles -> Hosts] : hh["r2"] = hh["r1"]}
    /\ pc = [h \in Handles |-> "none"]
    /\ shard = [h \in Handles |-> ZeroShard]
    /\ ret = [h \in Handles |-> 0]
    /\ diag = [h \in Handles |-> ""]
    /\ last = [h \in Handles |-> ""]
    /\ out = [h \in Handles |-> NoOut]
    /\ cmph = NoCmph
    /\ log = <<>>
    /\ faults = 0
    /\ oob = FALSE
    /\ heap = [h \in Handles |-> {}]
NextWords ==
    \/ fstate = "old" /\ ShardInit("w")
    \/ fstate = "old" /\ ShardCreate("w", 1)
    \/ last["w"] = "shard_create" /\ \E w \in Words : WriteUint64("w", w)
    \/ last["w"] = "shard_write" /\ ShardInit("r1")
    \/ ReadUint64("r1")
SpecWords == InitWords /\ [][NextWords]_vars

\* ------------------------------------------------------------ properties
Readers == Handles \ {"w"}
\* a u64 as the file holds it: most significant byte first
BigEndian(bytes) == IF Len(bytes) = U64Len THEN Val(bswap64(bytes)) ELSE -1
LogKeys == [i \in 1..Len(log) |-> log[i].key]
\* shard_save returned 0 on the writer's handle, which is still open
Saved == pc["w"] = "sealed" /\ ret["w"] = 0 /\ last["w"] = "shard_save"
\* ... after exactly objects_count writes, all successful, with distinct keys
FullBuild ==
    /\ Saved
    /\ Len(log) = shard["w"].header.objects_count
    /\ \A i \in 1..Len(log) : log[i].r = 0
    /\ Distinct(LogKeys)
LoadedBy(r) == pc[r] = "reading" /\ ret[r] = 0 /\ last[r] = "shard_load"

\* C1: round trip.  On a shard created with objects_count = N, written with
\* exactly N objects under distinct keys, saved and then loaded by a fresh
\* handle, shard_lookup_object_size of a written key returns 0 and the
\* written size, and the shard_lookup_object that follows returns 0 and the
\* written bytes.
C1_RoundTrip ==
    \A r \in Readers : \A i \in 1..Len(log) :
        (/\ FullBuild
         /\ pc[r] = "reading"
         /\ last[r] \in {"shard_lookup_object_size", "shard_lookup_object"}
         /\ out[r].key = log[i].key)
        => /\ ret[r] = 0
           /\ out[r].size = Len(log[i].object)
           /\ last[r] = "shard_lookup_object" => out[r].object = log[i].object

C1_Witness ==
    /\ FullBuild
    /\ Len(log) = 2
    /\ log[1].object = <<>>
    /\ pc["r1"] = "reading"
    /\ last["r1"] = "shard_lookup_object"
    /\ ret["r1"] = 0
    /\ out["r1"].key = log[2].key
    /\ out["r1"].object = <<66, 67>>

\* the writer is between shard_create and the end of shard_magic_save, or its
\* shard_save stopped before shard_magic_save, or died there
BeforeMagic ==
    \/ pc["w"] \in {"building", "cmph_new", "index_save", "hash_save",
                    "header_save", "magic_save", "crashed"}
    \/ pc["w"] = "save_failed" /\ diag["w"] # "shard_magic_save: write"
MagicDiags == {"shard_magic_load: read", "shard_magic_load: memcmp"}

\* C2: the magic is written last.  From shard_create (also over a path that
\* held a sealed shard) until shard_magic_save has run, and after a
\* shard_save that stopped at an earlier step, the first |MAGIC| bytes of the
\* file are not the magic, and a shard_load by another handle returns -1 from
\* shard_magic_load.
C2_MagicLast ==
    BeforeMagic =>
        /\ ~MagicOk(file)
        /\ \A r \in Readers :
              last[r] = "shard_load"
              => /\ ret[r] = -1
                 /\ pc[r] = "load_failed"
                 /\ diag[r] \in MagicDiags
                 /\ shard[r].hash = NullHash

C2_Witness ==
    /\ pc["w"] = "save_failed"
    /\ diag["w"] = "shard_header_save hash_position"
    /\ Len(log) = 2
    /\ last["r1"] = "shard_load"
    /\ diag["r1"] = "shard_magic_load: memcmp"

\* the u64 of the offset table that belongs to a key
TableEntry(sh, fl, key) ==
    BigEndian(FRead(fl, sh.header.index_position + U64Len * cmph_search(sh.hash, key), U64Len))
TableWritten == pc["w"] \in {"hash_save", "header_save", "magic_save", "sealed"}

\* C3: offset table.  Once shard_index_save has written the table, and on the
\* finalized shard, the u64 at index_position + 8 * cmph_search(k) is the
\* offset shard_object_write recorded for k, for every staged k, however many
\* rewind-and-read passes cmph_new made over the key stream.
C3_OffsetTable ==
    (TableWritten /\ (pc["w"] = "sealed" => Saved))
    => \A i \in 1..Len(log) :
          TableEntry(shard["w"], file, log[i].key) = log[i].offset

C3_Witness ==
    /\ pc["w"] = "hash_save"
    /\ cmph.passes = 2
    /\ Len(log) = 2
    /\ cmph_search(shard["w"].hash, log[1].key) > cmph_search(shard["w"].hash, log[2].key)
    /\ TableEntry(shard["w"], file, log[2].key) = log[2].offset
    /\ log[2].offset > log[1].offset

\* the header as the file holds it, seven big-endian u64 from SHARD_OFFSET_MAGIC
FileHeader ==
    [n \in DOMAIN ZeroHeader |->
        LET i == CHOOSE i \in 1..Len(HeaderFields) : HeaderFields[i] = n
        IN  BigEndian(FRead(file, SHARD_OFFSET_MAGIC + U64Len * (i - 1), U64Len))]

\* C4: header offsets of a finalized shard, in memory and in the file:
\* SHARD_OFFSET_HEADER = |MAGIC| + 56 = objects_position <= index_position
\* = objects_position + objects_size <= hash_position = index_position +
\* index_size, where index_size = 8 * cmph_size(hash) >= 8 * objects_count.
C4_HeaderOffsets ==
    Saved =>
        LET hd == shard["w"].header
        IN  /\ FileHeader = hd
            /\ hd.objects_position = SHARD_OFFSET_HEADER
            /\ hd.objects_position = MagicLen + HeaderLen
            /\ hd.objects_position <= hd.index_position
            /\ hd.index_position = hd.objects_position + hd.objects_size
            /\ hd.index_position <= hd.hash_position
            /\ hd.hash_position = hd.index_position + hd.index_size
            /\ hd.index_size = U64Len * cmph_size(shard["w"].hash)
            /\ hd.index_size >= U64Len * hd.objects_count

C4_Witness ==
    /\ Saved
    /\ shard["w"].header.objects_count = 2
    /\ shard["w"].header.objects_size > 0
    /\ cmph_size(shard["w"].hash) = 3
    /\ shard["w"].header.index_size = 24

\* C4 as the specification words it: hash_position = index_position +
\* 8 * objects_count and index_size = 8 * objects_count.
C4_AsStated ==
    Saved =>
        LET hd == shard["w"].header
        IN  /\ hd.objects_position = MagicLen + HeaderLen
            /\ hd.objects_position <= hd.index_position
            /\ hd.index_position = hd.objects_position + hd.objects_size
            /\ hd.index_position <= hd.hash_position
            /\ hd.hash_position = hd.index_position + U64Len * hd.objects_count
            /\ hd.index_size = U64Len * hd.objects_count

\* C5: header round trip.  After a shard_save that returned 0, a shard_load
\* on a fresh handle leaves in its header the seven fields the writer's
\* header held when shard_save returned.
C5_HeaderRoundTrip ==
    \A r \in Readers :
        (Saved /\ last[r] = "shard_load") => shard[r].header = shard["w"].header

C5_Witness ==
    /\ Saved
    /\ LoadedBy("r1")
    /\ shard["r1"].header = shard["w"].header
    /\ shard["r1"].header.objects_count = 2
    /\ shard["r1"].header.objects_size = 18
    /\ shard["r1"].header.index_size = 24

\* the keys the index held when shard_save ran
IndexKeys(sh) == [i \in 1..Len(sh.index) |-> sh.index[i].key]
PastHashCreate == pc["w"] \in {"index_save", "hash_save", "header_save",
                               "magic_save", "sealed", "save_failed", "crashed"}

\* C6: duplicate keys.  When two staged keys are equal, shard_save returns a
\* failure before it writes the offset table, the header or the magic, and a
\* later shard_load fails at the magic check.
C6_DuplicateKeys ==
    (PastHashCreate /\ ~Distinct(IndexKeys(shard["w"])))
    => /\ pc["w"] = "save_failed"
       /\ ret["w"] = -1
       /\ last["w"] = "shard_save"
       /\ ~MagicOk(file)

\* C7: index overflow.  After shard_create(objects_count = N) the (N+1)-th
\* and every later shard_object_write returns a failure, and no index entry
\* is stored beyond the N allocated ones.
C7_IndexOverflow ==
    /\ ~oob
    /\ pc["w"] = "building"
       => \A i \in 1..Len(log) :
             i > shard["w"].header.objects_count => log[i].r < 0

LookupNames == {"shard_lookup_object_size", "shard_lookup_object"}
\* C8: lifecycle.  shard_object_write returns 0 only on a handle in Building,
\* the lookups return 0 only on a handle in Reading, and a call in another
\* state returns a failure: it does not kill the process.
C8_Lifecycle ==
    /\ (last["w"] = "shard_object_write" /\ ret["w"] = 0) => pc["w"] = "building"
    /\ \A h \in Handles : (last[h] \in LookupNames /\ ret[h] = 0) => pc[h] = "reading"
    /\ \A h \in Readers : pc[h] # "crashed"

\* C9: bad magic.  shard_load of a file whose first |MAGIC| bytes are not the
\* magic (one byte differs, the last one say, or the file is shorter)
\* returns -1 from shard_magic_load; the header stays zeroed and no hash is
\* loaded.
C9_BadMagic ==
    \A r \in Readers :
        (last[r] = "shard_load" /\ ~MagicOk(file))
        => /\ ret[r] = -1
           /\ pc[r] = "load_failed"
           /\ diag[r] \in MagicDiags
           /\ diag[r] = "shard_magic_load: read" <=> Len(file) < MagicLen
           /\ shard[r].header = ZeroHeader
           /\ shard[r].hash = NullHash

C9_Witness ==
    /\ Len(file) > MagicLen + HeaderLen
    /\ SubSeq(file, 1, MagicLen - 1) = SubSeq(SHARD_MAGIC, 1, MagicLen - 1)
    /\ file[MagicLen] # SHARD_MAGIC[MagicLen]
    /\ FileHeader.version = SHARD_VERSION
    /\ last["r1"] = "shard_load"
    /\ ret["r1"] = -1
    /\ diag["r1"] = "shard_magic_load: memcmp"

\* what shard_load returns for a file without the magic
BadMagicReturn == shard_load(ZeroShard, <<>>, "LE").r
\* the magic is there, the version field too, and it is not SHARD_VERSION
OtherVersion ==
    /\ MagicOk(file)
    /\ Len(file) >= SHARD_OFFSET_MAGIC + U64Len
    /\ FileHeader.version # SHARD_VERSION

\* C10: unsupported version.  shard_load of a file with the magic and another
\* version returns -1, the value it returns for a bad magic too; no hash is
\* loaded, and when the seven header fields are there the message printed is
\* the one of the version check.
C10_UnsupportedVersion ==
    \A r \in Readers :
        (last[r] = "shard_load" /\ OtherVersion)
        => /\ ret[r] = -1
           /\ ret[r] = BadMagicReturn
           /\ pc[r] = "load_failed"
           /\ shard[r].hash = NullHash
           /\ diag[r] \notin MagicDiags
           /\ Len(file) >= SHARD_OFFSET_MAGIC + HeaderLen
              => diag[r] = "shard_header_load: unexpected version"

C10_Witness ==
    /\ OtherVersion
    /\ Len(file) >= SHARD_OFFSET_MAGIC + HeaderLen
    /\ FileHeader.version = SHARD_VERSION + 1
    /\ FileHeader.objects_count = 2
    /\ last["r1"] = "shard_load"
    /\ ret["r1"] = -1
    /\ shard["r1"].header.version = SHARD_VERSION + 1
    /\ shard["r1"].hash = NullHash

\* C10 as the specification words it: the failure is one the caller can tell
\* apart from the failure for a bad magic.
C10_AsStated ==
    \A r \in Readers :
        (last[r] = "shard_load" /\ OtherVersion)
        => /\ ret[r] < 0
           /\ ret[r] # BadMagicReturn
           /\ shard[r].hash = NullHash

\* what a handle that ran alone gets: shard_load, then one size lookup, then
\* the object lookup with the size it was given
AloneSize(r, key) ==
    lookup_object_size(shard_load(ZeroShard, file, host[r]).sh, file, host[r], key)
AloneObject(r, key) ==
    shard_read(AloneSize(r, key).sh, file, AloneSize(r, key).size)

\* C11: independent readers.  Whatever the interleaving of the lookups of two
\* handles that loaded the same sealed file, each handle's size lookup and
\* object lookup return what they return when the handle runs alone, and the
\* handle's file position is the one it has when alone: the calls of the
\* other handle do not move it.
C11_IndependentReaders ==
    \A r \in Readers :
        (pc[r] = "reading" /\ last[r] \in LookupNames)
        => LET a == AloneSize(r, out[r].key)
               b == AloneObject(r, out[r].key)
           IN  IF last[r] = "shard_lookup_object_size"
               THEN /\ ret[r] = a.r
                    /\ a.r = 0 => out[r].size = a.size
                    /\ shard[r].pos = a.sh.pos
               ELSE /\ a.r = 0
                    /\ ret[r] = b.r
                    /\ out[r].size = a.size
                    /\ out[r].object = b.data
                    /\ shard[r].pos = b.pos

C11_Witness ==
    /\ file = PrevShard2
    /\ pc["r1"] = "reading" /\ pc["r2"] = "reading"
    /\ last["r1"] = "shard_lookup_object" /\ out["r1"].key = 1
    /\ out["r1"].object = <<66, 67>>
    /\ last["r2"] = "shard_lookup_object_size" /\ out["r2"].key = 2
    /\ out["r2"].size = 0
    /\ shard["r1"].pos # shard["r2"].pos

\* the entries of the writer's index that shard_object_write has filled
Staged == 1..Min(shard["w"].index_offset, Len(shard["w"].index))
StagedOffset(i) == shard["w"].index[i].object_offset

C13_GuaranteedRelease ==
    \A h \in Handles : last[h] = "shard_destroy" => heap[h] = {}


\* a step in which shard_destroy runs on handle h
Destroys(h) == pc[h] # "none" /\ pc'[h] = "none" /\ last'[h] = "shard_destroy"
\* what a handle can hold that shard_destroy knows of
Owned == {"shard", "path", "FILE", "index", "source", "config", "hash"}
\* C20: shard_destroy.  Each resource is released exactly when it was
\* acquired, whatever the others are, and the value returned is the result of
\* closing the file: 0 when the handle never opened a file (shard_init only,
\* or an open that failed), and what fclose returned otherwise.
C20_DestroyStatus ==
    [][\A h \in Handles : Destroys(h) =>
          /\ Released(shard[h]) = heap[h] \cap Owned
          /\ heap'[h] \cap Owned = {}
          /\ shard[h].f = "NULL" => ret'[h] = 0 /\ faults' = faults
          /\ shard[h].f # "NULL" => ret'[h] = (IF faults' > faults THEN EOF ELSE 0)]_vars
\* the writer was destroyed with a clean close and the reader after it with
\* a close that failed
C20_Witness ==
    /\ last["w"] = "shard_destroy" /\ ret["w"] = 0
    /\ last["r1"] = "shard_destroy" /\ ret["r1"] = EOF
    /\ diag["r1"] = "shard_close: fclose"
\* shard_destroy after an open that failed returns 0
C20_NeverOpened ==
    /\ last["r1"] = "shard_destroy" /\ ret["r1"] = 0 /\ faults = 1
    /\ file = <<>> /\ fstate = "old"


\* shard_save went past shard_hash_create / past shard_hash_save and runs on
PastBuild == pc["w"] \in {"index_save", "hash_save", "header_save", "magic_save", "sealed"}
PastBlobDump == pc["w"] \in {"header_save", "magic_save", "sealed"}
\* the whole blob of the hash is in the file at hash_position
BlobWritten(sh, fl) ==
    FRead(fl, sh.header.hash_position, BlobLen) = cmph_dump(sh.hash)
\* C14, failed build: shard_save does not go on to the offset table after a
\* build that gave no hash.
C14_BuildAborts == PastBuild => shard["w"].hash # NullHash
\* C14, failed blob dump: shard_save does not go on to the header and the
\* magic when the blob was not written whole.
C14_DumpAborts == PastBlobDump => BlobWritten(shard["w"], file)
\* C14: finalize order and abort.  shard_save runs build, offset table, blob
\* dump, header and magic in this order, and a step that fails is the last
\* one to run: shard_save then returns -1, so header and magic are never
\* written after a failed build, table write or blob dump.
C14_FinalizeAbort ==
    /\ C14_BuildAborts
    /\ C14_DumpAborts
    /\ pc["w"] = "save_failed" => ret["w"] = -1 \/ last["w"] # "shard_save"


\* the offset the table of the loaded shard holds for the key of the last
\* size lookup
Selected(r) == TableEntry(shard[r], file, out[r].key)
\* C15: split lookup coupling.  After a shard_lookup_object_size that
\* returned 0 the handle's position is the selected object_offset + 8, and a
\* shard_lookup_object that returns 0 gives the bytes of the file from that
\* position on, as many as the size it was passed: they are the bytes of the
\* object of the last size lookup, whatever key an earlier size lookup named
\* and whatever size it gave.
C15_LookupCoupling ==
    \A r \in Readers :
        (pc[r] = "reading" /\ last[r] \in LookupNames /\ ret[r] = 0)
        => IF last[r] = "shard_lookup_object_size"
           THEN /\ shard[r].pos = Selected(r) + U64Len
                /\ out[r].size = BigEndian(FRead(file, Selected(r), U64Len))
           ELSE /\ out[r].object =
                      FRead(file, Selected(r) + U64Len, Len(out[r].object))
                /\ shard[r].pos = Selected(r) + U64Len + Len(out[r].object)
\* key 1 holds BC and key 2 holds DE: after a size lookup of key 2, a
\* shard_lookup_object returns DE
C15_Witness ==
    /\ \E hsh \in cmph_new(<<1, 2>>) : file = SealedPair(<<66, 67>>, <<68, 69>>, hsh)
    /\ pc["r1"] = "reading"
    /\ last["r1"] = "shard_lookup_object" /\ ret["r1"] = 0
    /\ out["r1"].key = 2
    /\ out["r1"].object = <<68, 69>>
\* key 1 holds BC and key 2 holds A: after a size lookup of key 2 that gave 1,
\* a shard_lookup_object passed the size 2 of key 1 returns A and one byte more
C15_OtherSize ==
    /\ \E hsh \in cmph_new(<<1, 2>>) : file = SealedPair(<<66, 67>>, <<65>>, hsh)
    /\ pc["r1"] = "reading"
    /\ last["r1"] = "shard_lookup_object" /\ ret["r1"] = 0
    /\ out["r1"].key = 2 /\ out["r1"].size = 1
    /\ Len(out["r1"].object) = 2 /\ out["r1"].object[1] = 65


\* slot j of the offset table in the file, and the offsets of the stored objects
SlotValue(j) ==
    BigEndian(FRead(file, shard["w"].header.index_position + U64Len * j, U64Len))
StoredOffsets == {log[i].offset : i \in 1..Len(log)}
Slots == 0..(cmph_size(shard["w"].hash) - 1)
LookedUp(r) == pc[r] = "reading" /\ last[r] \in LookupNames
\* the lookup of handle r gave the size, and the bytes if asked, of stored object i
GaveObject(r, i) ==
    /\ ret[r] = 0
    /\ out[r].size = Len(log[i].object)
    /\ last[r] = "shard_lookup_object" => out[r].object = log[i].object
\* C16: non-member lookup.  On a shard finalized from exactly objects_count
\* writes with distinct keys, a slot of the offset table holds the offset of
\* a stored object if a staged key hashes to it and 0 otherwise.  The lookup
\* of a key whose slot holds an offset returns the size and bytes of that
\* object, member or not; the size lookup of a key whose slot holds 0
\* returns 0 with the first eight bytes of the file as the size, and the
\* object lookup that follows fails.
C16_NonMember ==
    FullBuild =>
        /\ \A j \in Slots :
              IF \E i \in 1..Len(log) : cmph_search(shard["w"].hash, log[i].key) = j
              THEN SlotValue(j) \in StoredOffsets
              ELSE SlotValue(j) = 0
        /\ \A r \in Readers : LookedUp(r) =>
              LET e == SlotValue(cmph_search(shard["w"].hash, out[r].key))
              IN  IF e \in StoredOffsets
                  THEN \E i \in 1..Len(log) : log[i].offset = e /\ GaveObject(r, i)
                  ELSE /\ e = 0
                       /\ out[r].key \notin {log[i].key : i \in 1..Len(log)}
                       /\ out[r].size = BigEndian(FRead(file, 0, U64Len))
                       /\ ret[r] = IF last[r] = "shard_lookup_object" THEN -1 ELSE 0
\* the size lookup of a key that was not written fell on a slot that holds 0
C16_Witness ==
    /\ FullBuild
    /\ pc["r1"] = "reading" /\ last["r1"] = "shard_lookup_object_size"
    /\ out["r1"].key \notin {log[i].key : i \in 1..Len(log)}
    /\ SlotValue(cmph_search(shard["w"].hash, out["r1"].key)) = 0
    /\ ret["r1"] = 0
    /\ out["r1"].size > Len(file)
\* C16 as the specification states it: every slot holds the offset of a
\* stored object, and every lookup returns 0 with the size and bytes of one
\* stored object.
C16_AsStated ==
    FullBuild =>
        /\ \A j \in Slots : SlotValue(j) \in StoredOffsets
        /\ \A r \in Readers : LookedUp(r) => \E i \in 1..Len(log) : GaveObject(r, i)


Prefix(a, b) == Len(a) <= Len(b) /\ a = SubSeq(b, 1, Len(a))
\* the step wrote bytes, a prefix of all, from position p on and nothing before
WroteAt(p, all) ==
    /\ shard["w"].pos = p
    /\ shard'["w"].pos >= p
    /\ IF shard'["w"].pos = p THEN file' = file
       ELSE Len(file') = Max(Len(file), shard'["w"].pos)
    /\ SubSeq(file', 1, Min(p, Len(file))) = SubSeq(file, 1, Min(p, Len(file)))
    /\ Prefix(FRead(file', p, shard'["w"].pos - p), all)
\* the steps of shard_save that write the offset table and the blob
IndexSaveStep == pc["w"] = "index_save" /\ pc'["w"] # "index_save" /\ shard["w"].hash # NullHash
HashSaveStep == pc["w"] = "hash_save" /\ pc'["w"] # "hash_save"
TableBytes(sh, hst) == Cat([j \in 1..cmph_size(sh.hash) |-> ToMem(hst, IndexTable(sh, hst)[j])])
\* C17: region placement during shard_save.  shard_index_save never stops at
\* one of its assertions, it writes the offset table from header.index_position
\* on, and shard_hash_save writes the blob from header.hash_position on; the
\* build does not move the file position.
C17_RegionPlacement ==
    [][/\ IndexSaveStep =>
            /\ pc'["w"] # "crashed"
            /\ WroteAt(shard'["w"].header.index_position, TableBytes(shard'["w"], host["w"]))
            /\ pc'["w"] = "hash_save" =>
                  shard'["w"].pos = shard'["w"].header.index_position
                                      + shard'["w"].header.index_size
       /\ HashSaveStep =>
            WroteAt(shard'["w"].header.hash_position, cmph_dump(shard'["w"].hash))
       /\ pc["w"] = "cmph_new" => shard'["w"].pos = shard["w"].pos]_vars
\* a table of three slots and the whole blob after it are in the file, each at
\* its position
C17_Witness ==
    /\ pc["w"] = "header_save"
    /\ Len(log) = 2
    /\ cmph_size(shard["w"].hash) = 3
    /\ shard["w"].header.hash_position = shard["w"].header.index_position + 3 * U64Len
    /\ FRead(file, shard["w"].header.index_position, 3 * U64Len)
           = TableBytes(shard["w"], host["w"])
    /\ BlobWritten(shard["w"], file)
    /\ Len(file) = shard["w"].header.hash_position + BlobLen


RECURSIVE ObjectsSize(_)
\* the sum over the written objects of 8 + object_size
ObjectsSize(lg) ==
    IF lg = <<>> THEN 0 ELSE U64Len + Len(Head(lg).object) + ObjectsSize(Tail(lg))
\* shard_save has set header.objects_size on the writer's handle
PastSaveBegin == pc["w"] \in {"cmph_new", "index_save", "hash_save", "header_save",
                              "magic_save", "sealed", "save_failed", "crashed"}
\* C18: objects-region accounting.  From the first statement of shard_save
\* on, on a writer whose shard_object_write calls all returned 0,
\* header.objects_size is the sum over the written objects of 8 + object_size,
\* whatever the keys and the order of the writes, and the finalized file
\* holds this number in its header.
C18_ObjectsSize ==
    (PastSaveBegin /\ \A i \in 1..Len(log) : log[i].r = 0)
    => /\ shard["w"].header.objects_size = ObjectsSize(log)
       /\ Saved => FileHeader.objects_size = ObjectsSize(log)
\* objects of sizes 1, 2000 and 0 written in this order and saved: 2025
C18_Witness ==
    /\ Saved
    /\ Len(log) = 3
    /\ Len(log[1].object) = 1 /\ Len(log[2].object) = BigSize /\ log[3].object = <<>>
    /\ \A i \in 1..3 : log[i].r = 0
    /\ shard["w"].header.objects_size = 2025
    /\ FileHeader.objects_size = 2025


\* cmph_new is reading the key stream of the writer's handle
InPass == pc["w"] = "cmph_new" /\ cmph.passes >= 1
\* C19: key stream.  After each rewind the n-th read yields the key of the
\* n-th index entry, which is the n-th key written; the cursor counts the
\* reads and never passes objects_count, so no entry at position >=
\* objects_count is read; the read that brings the cursor to objects_count,
\* and no earlier one, signals the end of the stream.
C19_KeyStream ==
    InPass =>
        /\ shard["w"].index_offset = Len(cmph.keys)
        /\ Len(cmph.keys) <= shard["w"].header.objects_count
        /\ \A n \in 1..Len(cmph.keys) :
              /\ cmph.keys[n] = shard["w"].index[n].key
              /\ n <= Len(log) => cmph.keys[n] = log[n].key
        /\ cmph.eos <=> /\ Len(cmph.keys) >= 1
                        /\ Len(cmph.keys) = shard["w"].header.objects_count
\* the second pass over two keys written in this order has read both
C19_Witness ==
    /\ InPass
    /\ cmph.passes = 2
    /\ Len(log) = 2 /\ log[1].key # log[2].key
    /\ shard["w"].header.objects_count = 2
    /\ cmph.keys = LogKeys
    /\ cmph.eos


\* the bytes of a word from the most significant one down
MostSignificantFirst(w) == [i \in 1..U64Len |-> w[U64Len + 1 - i]]
\* C21: byte order.  A uint64_t of any value, written by a little-endian or a
\* big-endian machine, is in the file most significant byte first, and
\* shard_read_uint64_t on either kind of machine gives the value back.
C21_ByteOrder ==
    /\ last["w"] = "shard_write" =>
          /\ ret["w"] = 0
          /\ FRead(file, SHARD_OFFSET_HEADER, U64Len) = MostSignificantFirst(out["w"].object)
    /\ last["r1"] = "shard_read_uint64_t" =>
          /\ ret["r1"] = 0
          /\ out["r1"].object = out["w"].object
\* a value of 2^63 or more whose bytes are not a palindrome, written on a
\* little-endian machine and read back on a big-endian one
C21_Witness ==
    /\ host["w"] = "LE" /\ host["r1"] = "BE"
    /\ last["r1"] = "shard_read_uint64_t"
    /\ out["w"].object = <<1, 0, 0, 0, 0, 0, 0, 255>>
    /\ FRead(file, SHARD_OFFSET_HEADER, U64Len) = <<255, 0, 0, 0, 0, 0, 0, 1>>
    /\ out["r1"].object = <<1, 0, 0, 0, 0, 0, 0, 255>>


\* a step in which shard_object_write runs on the writer's handle
ObjectWriteStep == last'["w"] = "shard_object_write" /\ Len(log') = Len(log) + 1
\* C22: shard_object_write stages its entry before any I/O.  Every call,
\* whatever it returns, puts the key and the file position it found into the
\* next index entry, leaves the other entries alone and adds one to the
\* count of staged entries.
C22_StagedFirst ==
    [][ObjectWriteStep =>
          LET n == shard["w"].index_offset
          IN  /\ shard'["w"].index_offset = n + 1
              /\ Len(shard'["w"].index) = Len(shard["w"].index)
              /\ shard'["w"].index[n + 1] =
                     [key |-> log'[Len(log')].key, object_offset |-> shard["w"].pos]
              /\ \A i \in 1..Len(shard["w"].index) :
                     i # n + 1 => shard'["w"].index[i] = shard["w"].index[i]]_vars
\* the second of two calls failed in the write of its payload, having
\* written the size: its entry is staged, after the one of the first call
C22_Witness ==
    /\ pc["w"] = "building"
    /\ last["w"] = "shard_object_write" /\ ret["w"] = -1
    /\ diag["w"] = "shard_object_write: object"
    /\ Len(log) = 2 /\ log[1].r = 0 /\ log[2].r = -1
    /\ shard["w"].index_offset = 2
    /\ shard["w"].index[2] = [key |-> log[2].key, object_offset |-> log[2].offset]
    /\ shard["w"].pos > log[2].offset

====
